---- MODULE Spec2Model ----
(***************************************************************************)
(* Traffic simulation at one signalised intersection: vehicles with        *)
(* car-following and lane changes, ambulances that clear their path, a     *)
(* four-phase traffic light (fixed or adaptive), pedestrians, and the      *)
(* per-tick orchestrator.                                                  *)
(*                                                                         *)
(* Number representation.  The program computes in floating point; the     *)
(* model computes in fixed point:                                          *)
(*   - lengths and positions are whole distance units,                     *)
(*   - speeds are whole units per second,                                  *)
(*   - every duration (dt, timers, cooldowns, light phases) is a whole     *)
(*     number of time quanta, TQ quanta to the second,                     *)
(*   - a product that is not whole is truncated (\div).                    *)
(* time_scale is counted in units of TIME_SCALE_STEP (halves), the frame   *)
(* time dt in quanta, so the effective step of a tick is dt*time_scale/2.  *)
(***************************************************************************)
EXTENDS Integers, Sequences, FiniteSets, TLC

VARIABLES vehicles,               \* TrafficSimulation.vehicles (list of Vehicle)
          pedestrians,            \* TrafficSimulation.pedestrians
          traffic_light,          \* TrafficSimulation.traffic_light
          paused, time_scale,
          spawn_timer, pedestrian_spawn_timer,
          total_cars_passed, simulation_time,
          last                    \* history: the operation that produced this state

vars == << vehicles, pedestrians, traffic_light, paused, time_scale,
           spawn_timer, pedestrian_spawn_timer, total_cars_passed,
           simulation_time, last >>

---------------------------------------------------------------------------
(* config.py (not part of the sources at hand): values as the design      *)
(* document names them; durations in quanta.                              *)

TQ == 10

SCREEN_WIDTH == 1400
ROAD_Y_START == 280
LANE_WIDTH == 60
NUM_LANES == 4
ROAD_WIDTH == 240
INTERSECTION_X == 600
INTERSECTION_WIDTH == 200

CAR_NORMAL_LENGTH == 50
CAR_NORMAL_WIDTH == 30
CAR_NORMAL_MAX_SPEED == 150
CAR_NORMAL_ACCELERATION == 80
TRUCK_LENGTH == 80
TRUCK_WIDTH == 36
TRUCK_MAX_SPEED == 100
TRUCK_ACCELERATION == 40
SPORTS_LENGTH == 40
SPORTS_WIDTH == 28
SPORTS_MAX_SPEED == 200
SPORTS_ACCELERATION == 120
AMBULANCE_LENGTH == 60
AMBULANCE_WIDTH == 32
AMBULANCE_MAX_SPEED == 180
AMBULANCE_ACCELERATION == 100

SAFE_DISTANCE == 80
LANE_CHANGE_MIN_GAP == 60
LANE_CHANGE_COOLDOWN == 30
LIGHT_GREEN_TIME == 80
LIGHT_YELLOW_TIME == 20
ADAPTIVE_LIGHT_THRESHOLD == 2
SPAWN_INTERVAL == 20
INITIAL_SPAWN_COUNT == 2
PEDESTRIAN_SPEED == 50
CROSSWALK_WAIT_TIME == 20
PEDESTRIAN_SPAWN_INTERVAL == 50
TIME_SCALE_MIN == 1
TIME_SCALE_MAX == 6
TIME_SCALE_STEP == 1

---------------------------------------------------------------------------
(* Arithmetic helpers.                                                     *)

Min(a, b) == IF a <= b THEN a ELSE b
Max(a, b) == IF a >= b THEN a ELSE b
Abs(a) == IF a < 0 THEN -a ELSE a

\* rate * dt, dt in quanta
PerTick(rate, dt) == (rate * dt) \div TQ

\* dt *= time_scale, time_scale in halves
ScaledStep(dt, ts) == (dt * ts) \div 2

VehicleTypes == {"car", "truck", "sports", "ambulance"}

\* The constructor arguments of NormalCar, Truck, SportsCar and Ambulance.
ClassParams(t) ==
    CASE t = "car"       -> [length |-> CAR_NORMAL_LENGTH, width |-> CAR_NORMAL_WIDTH,
                             max_speed |-> CAR_NORMAL_MAX_SPEED,
                             acceleration |-> CAR_NORMAL_ACCELERATION]
      [] t = "truck"     -> [length |-> TRUCK_LENGTH, width |-> TRUCK_WIDTH,
                             max_speed |-> TRUCK_MAX_SPEED,
                             acceleration |-> TRUCK_ACCELERATION]
      [] t = "sports"    -> [length |-> SPORTS_LENGTH, width |-> SPORTS_WIDTH,
                             max_speed |-> SPORTS_MAX_SPEED,
                             acceleration |-> SPORTS_ACCELERATION]
      [] t = "ambulance" -> [length |-> AMBULANCE_LENGTH, width |-> AMBULANCE_WIDTH,
                             max_speed |-> AMBULANCE_MAX_SPEED,
                             acceleration |-> AMBULANCE_ACCELERATION]

\* Vehicle.__init__
NewVehicle(x, y, lane, direction, t) ==
    [x |-> x, y |-> y, lane |-> lane, direction |-> direction,
     length |-> ClassParams(t).length, width |-> ClassParams(t).width,
     max_speed |-> ClassParams(t).max_speed,
     acceleration |-> ClassParams(t).acceleration,
     vehicle_type |-> t,
     speed |-> (ClassParams(t).max_speed * 8) \div 10,
     target_speed |-> ClassParams(t).max_speed,
     lane_change_cooldown |-> 0,
     passed_intersection |-> FALSE,
     stopped_at_light |-> FALSE,
     siren_state |-> 0]

\* y of a vehicle of width w centred in a lane
LaneY(lane, w) == ROAD_Y_START + lane * LANE_WIDTH + ((LANE_WIDTH - w) \div 2)

---------------------------------------------------------------------------
(* TrafficLight                                                            *)

NewTrafficLight == [state |-> "ew_green", timer |-> 0, adaptive_mode |-> FALSE]

\* get_light_state with the east-west colours shifted by one phase
get_light_state_shifted(tl, direction) ==
    IF tl.state = "ew_green" THEN "yellow"
    ELSE "red"

get_light_state(tl, direction) ==
    IF tl.state = "ew_green" THEN "green"
    ELSE IF tl.state = "ew_yellow" THEN "yellow"
    ELSE "red"

---------------------------------------------------------------------------
(* Vehicle                                                                 *)

get_front_x(v) == IF v.direction = 1 THEN v.x ELSE v.x - v.length

distance_to_vehicle(self, other) ==
    IF self.direction = 1
    THEN other.x - (self.x + self.length)
    ELSE (self.x - self.length) - other.x

distance_to_light(self) ==
    IF self.direction = 1
    THEN INTERSECTION_X - (self.x + self.length)
    ELSE (self.x - self.length) - (INTERSECTION_X + INTERSECTION_WIDTH)

\* Index of the nearest vehicle ahead in the same lane, 0 for None.  The scan
\* keeps the first vehicle of the least positive distance.
find_vehicle_ahead(vs, i) ==
    LET cand == { j \in 1..Len(vs) :
                    /\ j # i
                    /\ vs[j].lane = vs[i].lane
                    /\ vs[j].direction = vs[i].direction
                    /\ distance_to_vehicle(vs[i], vs[j]) > 0 }
    IN IF cand = {} THEN 0
       ELSE CHOOSE j \in cand :
              \A k \in cand :
                 \/ distance_to_vehicle(vs[i], vs[j]) < distance_to_vehicle(vs[i], vs[k])
                 \/ /\ distance_to_vehicle(vs[i], vs[j]) = distance_to_vehicle(vs[i], vs[k])
                    /\ j <= k

\* The gap test of can_change_lane against one occupant v of the target lane.
LaneGapBlocks(self, v) ==
    LET gap_front == IF self.direction = 1
                     THEN v.x - (self.x + self.length)
                     ELSE (self.x - self.length) - v.x
        gap_rear  == IF self.direction = 1
                     THEN self.x - (v.x + v.length)
                     ELSE v.x - v.length - self.x
    IN /\ gap_front > -self.length
       /\ gap_rear > -self.length
       /\ (Abs(gap_front) < LANE_CHANGE_MIN_GAP \/ Abs(gap_rear) < LANE_CHANGE_MIN_GAP)

\* can_change_lane without the test of the cooldown
can_change_lane_no_cooldown(vs, i, target_lane) ==
    /\ ~(target_lane < 0 \/ target_lane >= NUM_LANES)
    /\ \A j \in 1..Len(vs) :
          (j # i /\ vs[j].lane = target_lane /\ vs[j].direction = vs[i].direction)
             => ~LaneGapBlocks(vs[i], vs[j])

can_change_lane(vs, i, target_lane) ==
    /\ ~(vs[i].lane_change_cooldown > 0)
    /\ ~(target_lane < 0 \/ target_lane >= NUM_LANES)
    /\ \A j \in 1..Len(vs) :
          (j # i /\ vs[j].lane = target_lane /\ vs[j].direction = vs[i].direction)
             => ~LaneGapBlocks(vs[i], vs[j])

\* lanes_to_try taking the lane two further, of the other direction
lanes_to_try_any(self) == { (self.lane + 2) % NUM_LANES }

\* lanes_to_try of attempt_lane_change, as a set (it never has two entries)

lanes_to_try(self) ==
    IF self.direction = 1
    THEN (IF self.lane = 0 THEN {1} ELSE IF self.lane = 1 THEN {0} ELSE {})
    ELSE (IF self.lane = 2 THEN {3} ELSE IF self.lane = 3 THEN {2} ELSE {})

\* The vehicle list after vs[i].attempt_lane_change(vs).
attempt_lane_change(vs, i) ==
    LET self == vs[i]
        ahead == find_vehicle_ahead(vs, i)
    IN IF ahead = 0 THEN vs
       ELSE IF distance_to_vehicle(self, vs[ahead]) > SAFE_DISTANCE * 2 THEN vs
       ELSE IF \E t \in lanes_to_try(self) : can_change_lane(vs, i, t)
            THEN LET t == CHOOSE t \in lanes_to_try(self) : can_change_lane(vs, i, t)
                 IN [vs EXCEPT ![i] = [self EXCEPT !.lane = t,
                                                    !.y = LaneY(t, self.width),
                                                    !.lane_change_cooldown = LANE_CHANGE_COOLDOWN]]
            ELSE vs

\* integrate_speed without the rate limit: the speed jumps to the target
integrate_speed_jump(speed, target_speed, acceleration, dt) ==
    Max(target_speed, 0)

\* "Accelerate/decelerate smoothly": the new speed.
integrate_speed(speed, target_speed, acceleration, dt) ==
    IF speed < target_speed
    THEN Min(speed + PerTick(acceleration, dt), target_speed)
    ELSE IF speed > target_speed
    THEN Max(Max(speed - PerTick((acceleration * 3) \div 2, dt), target_speed), 0)
    ELSE speed

\* "Mark if passed intersection" for the position x
mark_passed(self, x) ==
    IF self.direction = 1 /\ x > INTERSECTION_X + INTERSECTION_WIDTH THEN TRUE
    ELSE IF self.direction = -1 /\ x < INTERSECTION_X THEN TRUE
    ELSE self.passed_intersection

\* target speed of Vehicle.update
vehicle_target_speed(vs, i, tl) ==
    LET self == vs[i]
        ahead == find_vehicle_ahead(vs, i)
        light_distance == distance_to_light(self)
        should_stop_at_light ==
            /\ light_distance > 0 /\ light_distance < 150
            /\ get_light_state(tl, self.direction) \in {"red", "yellow"}
        stop_distance == Max(light_distance - 10, 0)
    IN IF should_stop_at_light /\ light_distance < 100
       THEN (IF stop_distance < 50 THEN 0
             ELSE (self.max_speed * stop_distance) \div 100)
       ELSE IF ahead # 0
       THEN LET gap == distance_to_vehicle(self, vs[ahead])
            IN IF gap < SAFE_DISTANCE THEN (vs[ahead].speed * 9) \div 10
               ELSE IF gap < SAFE_DISTANCE * 2 THEN vs[ahead].speed
               ELSE self.max_speed
       ELSE self.max_speed

\* stopped_at_light after Vehicle.update
vehicle_stopped_flag(vs, i, tl) ==
    LET self == vs[i]
        ahead == find_vehicle_ahead(vs, i)
        light_distance == distance_to_light(self)
        should_stop_at_light ==
            /\ light_distance > 0 /\ light_distance < 150
            /\ get_light_state(tl, self.direction) \in {"red", "yellow"}
        flag1 == self.stopped_at_light \/ should_stop_at_light
    IN IF should_stop_at_light /\ light_distance < 100 THEN flag1
       ELSE IF ahead # 0 THEN flag1
       ELSE IF flag1 /\ light_distance # 0 /\ light_distance > 50 THEN FALSE
       ELSE flag1

\* The vehicle list after vs[i].update(dt, vs, tl, time_scale) of a
\* non-ambulance; dt is the scaled step.
Vehicle_update(vs, i, dt, tl) ==
    LET self == vs[i]
        cooldown == IF self.lane_change_cooldown > 0
                    THEN self.lane_change_cooldown - dt
                    ELSE self.lane_change_cooldown
        target == vehicle_target_speed(vs, i, tl)
        speed == integrate_speed(self.speed, target, self.acceleration, dt)
        x == self.x + PerTick(speed, dt) * self.direction
    IN [vs EXCEPT ![i] = [self EXCEPT !.lane_change_cooldown = cooldown,
                                       !.stopped_at_light = vehicle_stopped_flag(vs, i, tl),
                                       !.target_speed = target,
                                       !.speed = speed,
                                       !.x = x,
                                       !.passed_intersection = mark_passed(self, x)]]

\* Ambulance.clear_path from the j-th vehicle of the scan on: every vehicle
\* tested sees the lane changes the scan has already made.
RECURSIVE clear_path_from(_, _, _)
clear_path_from(vs, i, j) ==
    IF j > Len(vs) THEN vs
    ELSE IF j = i \/ vs[j].vehicle_type = "ambulance"
    THEN clear_path_from(vs, i, j + 1)
    ELSE IF /\ vs[j].lane = vs[i].lane
            /\ vs[j].direction = vs[i].direction
            /\ 0 < distance_to_vehicle(vs[i], vs[j])
            /\ distance_to_vehicle(vs[i], vs[j]) < 150
    THEN clear_path_from(attempt_lane_change(vs, j), i, j + 1)
    ELSE clear_path_from(vs, i, j + 1)

\* clear_path halting the vehicles of the ambulance's lane
clear_path_halting(vs, i) ==
    [j \in 1..Len(vs) |->
        IF j # i /\ vs[j].lane = vs[i].lane /\ vs[j].direction = vs[i].direction
        THEN [vs[j] EXCEPT !.speed = 0] ELSE vs[j]]

clear_path(vs, i) == clear_path_from(vs, i, 1)

\* target speed of Ambulance.update
ambulance_target_speed(vs, i, tl) ==
    LET self == vs[i]
        light_distance == distance_to_light(self)
        should_slow_at_light ==
            /\ light_distance > 0 /\ light_distance < 80
            /\ get_light_state(tl, self.direction) = "red"
        ahead == find_vehicle_ahead(vs, i)
    IN IF should_slow_at_light /\ light_distance < 60
       THEN self.max_speed \div 2
       ELSE IF ahead # 0
       THEN (IF 2 * distance_to_vehicle(self, vs[ahead]) < SAFE_DISTANCE
             THEN (vs[ahead].speed * 19) \div 20
             ELSE self.max_speed)
       ELSE self.max_speed

\* The vehicle list after vs[i].update(dt, vs, tl, time_scale) of an ambulance.
Ambulance_update(vs, i, dt, tl) ==
    LET self == vs[i]
        cooldown == IF self.lane_change_cooldown > 0
                    THEN self.lane_change_cooldown - dt
                    ELSE self.lane_change_cooldown
        cleared == clear_path([vs EXCEPT ![i] =
                       [self EXCEPT !.siren_state = (self.siren_state + 5 * dt) % (2 * TQ),
                                    !.lane_change_cooldown = cooldown]], i)
        me == cleared[i]
        target == ambulance_target_speed(cleared, i, tl)
        speed == integrate_speed(me.speed, target, me.acceleration, dt)
        x == me.x + PerTick(speed, dt) * me.direction
    IN [cleared EXCEPT ![i] = [me EXCEPT !.target_speed = target,
                                          !.speed = speed,
                                          !.x = x,
                                          !.passed_intersection = mark_passed(me, x)]]

\* Dynamic dispatch of vehicle.update
update_vehicle(vs, i, dt, tl) ==
    IF vs[i].vehicle_type = "ambulance"
    THEN Ambulance_update(vs, i, dt, tl)
    ELSE Vehicle_update(vs, i, dt, tl)

---------------------------------------------------------------------------
(* TrafficLight.update                                                     *)

Queued(v) == /\ v.speed < 10
             /\ (v.direction = 1 \/ v.direction = -1)
             /\ Abs(get_front_x(v) - INTERSECTION_X) < 200

ew_queue(vs) == Len(SelectSeq(vs, LAMBDA v : Queued(v) /\ v.lane \in {0, 1}))
ns_queue(vs) == Len(SelectSeq(vs, LAMBDA v : Queued(v) /\ v.lane \notin {0, 1}))

\* calculate_adaptive_time comparing the east-west queue in the ns phases too
calculate_adaptive_time_ew_only(tl, vs) ==
    IF ew_queue(vs) > ADAPTIVE_LIGHT_THRESHOLD
    THEN (LIGHT_GREEN_TIME * 3) \div 2
    ELSE LIGHT_GREEN_TIME

calculate_adaptive_time(tl, vs) ==
    IF tl.state \in {"ew_green", "ew_yellow"} /\ ew_queue(vs) > ADAPTIVE_LIGHT_THRESHOLD
    THEN (LIGHT_GREEN_TIME * 3) \div 2
    ELSE IF tl.state \in {"ns_green", "ns_yellow"} /\ ns_queue(vs) > ADAPTIVE_LIGHT_THRESHOLD
    THEN (LIGHT_GREEN_TIME * 3) \div 2
    ELSE LIGHT_GREEN_TIME

\* green_time of TrafficLight.update
green_time_of(tl, vs) ==
    IF tl.adaptive_mode THEN calculate_adaptive_time(tl, vs) ELSE LIGHT_GREEN_TIME

\* light_step forgetting to reset the timer when ns_yellow ends
light_step_stale_timer(state, timer, green_time) ==
    IF state = "ew_green"
    THEN (IF timer >= green_time THEN [state |-> "ew_yellow", timer |-> 0]
          ELSE [state |-> state, timer |-> timer])
    ELSE IF state = "ew_yellow"
    THEN (IF timer >= LIGHT_YELLOW_TIME THEN [state |-> "ns_green", timer |-> 0]
          ELSE [state |-> state, timer |-> timer])
    ELSE IF state = "ns_green"
    THEN (IF timer >= green_time THEN [state |-> "ns_yellow", timer |-> 0]
          ELSE [state |-> state, timer |-> timer])
    ELSE IF timer >= LIGHT_YELLOW_TIME THEN [state |-> "ew_green", timer |-> timer]
    ELSE [state |-> state, timer |-> timer]

\* The state machine of TrafficLight.update, the timer already advanced.
light_step(state, timer, green_time) ==
    IF state = "ew_green"
    THEN (IF timer >= green_time THEN [state |-> "ew_yellow", timer |-> 0]
          ELSE [state |-> state, timer |-> timer])
    ELSE IF state = "ew_yellow"
    THEN (IF timer >= LIGHT_YELLOW_TIME THEN [state |-> "ns_green", timer |-> 0]
          ELSE [state |-> state, timer |-> timer])
    ELSE IF state = "ns_green"
    THEN (IF timer >= green_time THEN [state |-> "ns_yellow", timer |-> 0]
          ELSE [state |-> state, timer |-> timer])
    ELSE IF state = "ns_yellow"
    THEN (IF timer >= LIGHT_YELLOW_TIME THEN [state |-> "ew_green", timer |-> 0]
          ELSE [state |-> state, timer |-> timer])
    ELSE [state |-> state, timer |-> timer]

\* TrafficLight.update catching up with a long step: the time beyond the end of
\* a phase is spent in the next phase, which may end in the same update
TrafficLight_update_catch_up(tl, dt, vs) ==
    LET timed == [tl EXCEPT !.timer = tl.timer + dt]
        green_time == green_time_of(timed, vs)
        duration == IF tl.state \in {"ew_green", "ns_green"} THEN green_time
                    ELSE LIGHT_YELLOW_TIME
        r == light_step(tl.state, tl.timer + dt, green_time)
        rr == IF r.state = tl.state THEN r
              ELSE light_step(r.state, tl.timer + dt - duration, green_time)
    IN [tl EXCEPT !.state = rr.state, !.timer = rr.timer]

\* The light after tl.update(dt, vs, time_scale); dt is the scaled step.
TrafficLight_update(tl, dt, vs) ==
    LET timed == [tl EXCEPT !.timer = tl.timer + dt]
        r == light_step(tl.state, tl.timer + dt, green_time_of(timed, vs))
    IN [tl EXCEPT !.state = r.state, !.timer = r.timer]

\* toggle_adaptive restarting the phase
toggle_adaptive_restart(tl) == [tl EXCEPT !.adaptive_mode = ~tl.adaptive_mode, !.timer = 0]

toggle_adaptive(tl) == [tl EXCEPT !.adaptive_mode = ~tl.adaptive_mode]

---------------------------------------------------------------------------
(* Pedestrian                                                              *)

NewPedestrian(side, direction) ==
    [side |-> side, direction |-> direction, state |-> "waiting", wait_timer |-> 0,
     y |-> IF side = "top" THEN ROAD_Y_START - 30 ELSE ROAD_Y_START + ROAD_WIDTH + 30,
     target_y |-> IF side = "top" THEN ROAD_Y_START + ROAD_WIDTH + 30 ELSE ROAD_Y_START - 30,
     x |-> IF direction = 1 THEN INTERSECTION_X - 50
           ELSE INTERSECTION_X + INTERSECTION_WIDTH + 50]

\* Pedestrian.update testing for "passed" instead of "reached or passed"
Pedestrian_update_strict(p, dt, tl) ==
    IF p.state = "waiting"
    THEN LET w == p.wait_timer + dt
         IN IF w > CROSSWALK_WAIT_TIME /\ tl.state \in {"ns_green", "ns_yellow"}
            THEN [p EXCEPT !.wait_timer = w, !.state = "crossing"]
            ELSE [p EXCEPT !.wait_timer = w]
    ELSE IF p.state = "crossing"
    THEN (IF p.side = "top"
          THEN LET y == p.y + PerTick(PEDESTRIAN_SPEED, dt)
               IN [p EXCEPT !.y = y,
                            !.state = IF y > p.target_y THEN "done" ELSE p.state]
          ELSE LET y == p.y - PerTick(PEDESTRIAN_SPEED, dt)
               IN [p EXCEPT !.y = y,
                            !.state = IF y < p.target_y THEN "done" ELSE p.state])
    ELSE p

\* The pedestrian after p.update(dt, tl, time_scale); dt is the scaled step.
Pedestrian_update(p, dt, tl) ==
    IF p.state = "waiting"
    THEN LET w == p.wait_timer + dt
         IN IF w > CROSSWALK_WAIT_TIME /\ tl.state \in {"ns_green", "ns_yellow"}
            THEN [p EXCEPT !.wait_timer = w, !.state = "crossing"]
            ELSE [p EXCEPT !.wait_timer = w]
    ELSE IF p.state = "crossing"
    THEN (IF p.side = "top"
          THEN LET y == p.y + PerTick(PEDESTRIAN_SPEED, dt)
               IN [p EXCEPT !.y = y,
                            !.state = IF y >= p.target_y THEN "done" ELSE p.state]
          ELSE LET y == p.y - PerTick(PEDESTRIAN_SPEED, dt)
               IN [p EXCEPT !.y = y,
                            !.state = IF y <= p.target_y THEN "done" ELSE p.state])
    ELSE p

\* is_done holding only for the pedestrians that started at the top
is_done_from_top(p) == p.state = "done" /\ p.side = "top"

is_done(p) == p.state = "done"

---------------------------------------------------------------------------
(* TrafficSimulation                                                       *)

\* Bounds of the model.
MaxVehicles == 3          \* spawn_vehicle adds no vehicle beyond this many
MaxPedestrians == 1       \* spawn_pedestrian adds no pedestrian beyond this many
MaxTicks == 4             \* updates and key commands of one run of the whole simulation
MaxSimTime == 40          \* simulation_time and total_cars_passed stop counting here
MaxDt == 5                \* frame times dt of 1..MaxDt quanta
MaxRunOps == 2            \* updates of one run from a mid-run situation

\* The vehicle loop of TrafficSimulation.update from the j-th vehicle on: each
\* vehicle is updated and, when its draw random() < 0.01 succeeds (j \in lc)
\* and it is no ambulance, attempts a lane change before the next is updated.
RECURSIVE update_vehicles_from(_, _, _, _, _)
update_vehicles_from(vs, j, dt, tl, lc) ==
    IF j > Len(vs) THEN vs
    ELSE LET u == update_vehicle(vs, j, dt, tl)
             w == IF j \in lc /\ u[j].vehicle_type # "ambulance"
                  THEN attempt_lane_change(u, j)
                  ELSE u
         IN update_vehicles_from(w, j + 1, dt, tl, lc)

\* The vehicle loop with the ambulances whose draw succeeds attempting a lane
\* change too
update_vehicles_no_skip(vs, dt, tl, lc) ==
    LET r == update_vehicles_from(vs, 1, dt, tl, lc)
    IN [j \in 1..Len(r) |->
          IF j \in lc /\ r[j].vehicle_type = "ambulance"
          THEN attempt_lane_change(r, j)[j] ELSE r[j]]

update_vehicles(vs, dt, tl, lc) == update_vehicles_from(vs, 1, dt, tl, lc)

\* The return value of is_offscreen
is_offscreen(v) ==
    \/ v.direction = 1 /\ v.x > SCREEN_WIDTH + 100
    \/ v.direction = -1 /\ v.x < -100

\* The vehicles the comprehension of update keeps, and those it drops
keep_onscreen(vs) == SelectSeq(vs, LAMBDA v : ~is_offscreen(v))
dropped_offscreen(vs) == SelectSeq(vs, LAMBDA v : is_offscreen(v))

\* passed_count counting the vehicles that have passed, dropped or not
passed_count_onscreen(vs) == Len(SelectSeq(vs, LAMBDA v : v.passed_intersection))

\* The increments of total_cars_passed that is_offscreen makes over vs
passed_count(vs) == Len(SelectSeq(vs, LAMBDA v : is_offscreen(v) /\ v.passed_intersection))

\* The draws of spawn_vehicle: direction, lane of its group, vehicle class
SpawnDraws ==
    { [direction |-> d, lane |-> l, vehicle_type |-> t] :
         d \in {1, -1}, l \in 0..3, t \in VehicleTypes }

VehicleDraws == { r \in SpawnDraws : (r.direction = 1) <=> (r.lane \in {0, 1}) }

\* spawn_vehicle without the check of the spawn position
spawn_vehicle_unchecked(vs, r, cap) ==
    Append(vs, NewVehicle(IF r.direction = 1 THEN -100 ELSE SCREEN_WIDTH + 100,
                          LaneY(r.lane, CAR_NORMAL_WIDTH), r.lane, r.direction,
                          r.vehicle_type))

\* The vehicle list after spawn_vehicle with the draws r
spawn_vehicle(vs, r, cap) ==
    LET x == IF r.direction = 1 THEN -100 ELSE SCREEN_WIDTH + 100
        y == LaneY(r.lane, CAR_NORMAL_WIDTH)
        can_spawn == \A j \in 1..Len(vs) :
                        (vs[j].lane = r.lane /\ vs[j].direction = r.direction)
                           => /\ ~(r.direction = 1 /\ vs[j].x < 200)
                              /\ ~(r.direction = -1 /\ vs[j].x > SCREEN_WIDTH - 200)
    IN IF can_spawn /\ Len(vs) < cap
       THEN Append(vs, NewVehicle(x, y, r.lane, r.direction, r.vehicle_type))
       ELSE vs

\* The draws of the pedestrian spawn: random() < 0.6, side, direction
PedestrianDraws ==
    { [go |-> g, side |-> s, direction |-> d] :
         g \in BOOLEAN, s \in {"top", "bottom"}, d \in {1, -1} }

spawn_pedestrian(ps, r, cap) ==
    IF r.go /\ Len(ps) < cap THEN Append(ps, NewPedestrian(r.side, r.direction)) ELSE ps

\* The pedestrian loop with every pedestrian taking the light for ns_green
update_pedestrians_unlit(ps, dt, tl) ==
    [j \in 1..Len(ps) |-> Pedestrian_update(ps[j], dt, [tl EXCEPT !.state = "ns_green"])]

\* The pedestrian loop of TrafficSimulation.update
update_pedestrians(ps, dt, tl) ==
    [j \in 1..Len(ps) |-> Pedestrian_update(ps[j], dt, tl)]

\* spawn_initial_vehicles: the i-th vehicle (0-based) of each direction
initial_vehicle(i, direction, lane, t) ==
    NewVehicle(IF direction = 1 THEN i * 200 - 300 ELSE SCREEN_WIDTH - i * 200 + 300,
               LaneY(lane, CAR_NORMAL_WIDTH), lane, direction, t)

\* The lists spawn_initial_vehicles can build
InitialVehicleLists ==
    LET n == INITIAL_SPAWN_COUNT \div 2
    IN { [ k \in 1..(2 * n) |->
             IF k <= n THEN initial_vehicle(k - 1, 1, ln[k], ty[k])
             ELSE initial_vehicle(k - n - 1, -1, ln[k], ty[k]) ] :
           ln \in { f \in [1..(2 * n) -> 0..3] :
                      \A k \in 1..(2 * n) : (k <= n) <=> (f[k] \in {0, 1}) },
           ty \in [1..(2 * n) -> VehicleTypes] }

\* A spawn timer carried over the wrap of update
timer_after_carry(t, interval) == IF t >= interval THEN t - interval ELSE t

\* A spawn timer of update once the step has been added to it: back to 0 when
\* it has reached its interval
timer_after(t, interval) == IF t >= interval THEN 0 ELSE t

\* The end of update(dt): the simulation once the light (tl), the vehicles
\* (vs) and the pedestrians (ps) have been updated with the scaled step d:
\* removals, counters, timers and spawns.  The fields removed and kept list
\* the vehicles dropped and those left before the spawn (for the history).
finish_update(s, d, tl, vs, ps, sv, sp, caps) ==
    LET kept == keep_onscreen(vs)
        pkept == SelectSeq(ps, LAMBDA p : ~is_done(p))
        st == s.spawn_timer + d
        pt == s.pedestrian_spawn_timer + d
    IN [vehicles |-> IF st >= SPAWN_INTERVAL THEN spawn_vehicle(kept, sv, caps.vehicles) ELSE kept,
        pedestrians |-> IF pt >= PEDESTRIAN_SPAWN_INTERVAL
                        THEN spawn_pedestrian(pkept, sp, caps.pedestrians) ELSE pkept,
        traffic_light |-> tl,
        time_scale |-> s.time_scale,
        spawn_timer |-> timer_after(st, SPAWN_INTERVAL),
        pedestrian_spawn_timer |-> timer_after(pt, PEDESTRIAN_SPAWN_INTERVAL),
        total_cars_passed |-> Min(s.total_cars_passed + passed_count(vs), caps.counters),
        simulation_time |-> Min(s.simulation_time + d, caps.counters),
        removed |-> dropped_offscreen(vs),
        kept |-> kept]

\* The draws that matter in this update: none when the timer is not due
DrawsIf(due, draws) == IF due THEN draws ELSE { CHOOSE r \in draws : TRUE }

VehicleSpawnDue(s, dt) == s.spawn_timer + ScaledStep(dt, s.time_scale) >= SPAWN_INTERVAL
PedestrianSpawnDue(s, dt) ==
    s.pedestrian_spawn_timer + ScaledStep(dt, s.time_scale) >= PEDESTRIAN_SPAWN_INTERVAL

\* The fields of the simulation as one record
Sim == [vehicles |-> vehicles, pedestrians |-> pedestrians,
        traffic_light |-> traffic_light, time_scale |-> time_scale,
        spawn_timer |-> spawn_timer,
        pedestrian_spawn_timer |-> pedestrian_spawn_timer,
        total_cars_passed |-> total_cars_passed,
        simulation_time |-> simulation_time]

\* update(dt) as an action: the light, then the vehicles, then the
\* pedestrians, then removals and spawns; h is the history of the step, whose
\* fields removed, kept, moved (the vehicles after their loop), walked (the
\* pedestrians after their loop), d, lc and sv, where it has them, are filled
\* in from the update.
Tick(dt, caps, h) ==
    /\ ~paused
    /\ \E lc \in SUBSET (1..Len(vehicles)),
          sv \in DrawsIf(VehicleSpawnDue(Sim, dt), VehicleDraws),
          sp \in DrawsIf(PedestrianSpawnDue(Sim, dt), PedestrianDraws) :
        \E s \in { Sim } :
        \E d \in { ScaledStep(dt, s.time_scale) } :
        \E tl \in { TrafficLight_update(s.traffic_light, d, s.vehicles) } :
        \E vs \in { update_vehicles(s.vehicles, d, tl, lc) } :
        \E ps \in { update_pedestrians(s.pedestrians, d, tl) } :
        \E r \in { finish_update(s, d, tl, vs, ps, sv, sp, caps) } :
           /\ vehicles' = r.vehicles
           /\ pedestrians' = r.pedestrians
           /\ traffic_light' = r.traffic_light
           /\ spawn_timer' = r.spawn_timer
           /\ pedestrian_spawn_timer' = r.pedestrian_spawn_timer
           /\ total_cars_passed' = r.total_cars_passed
           /\ simulation_time' = r.simulation_time
           /\ \E seen \in { [removed |-> r.removed, kept |-> r.kept, moved |-> vs,
                               walked |-> ps, d |-> d, lc |-> lc, sv |-> sv] } :
                 last' = [f \in DOMAIN h |-> IF f \in DOMAIN seen THEN seen[f] ELSE h[f]]
    /\ UNCHANGED << paused, time_scale >>

---------------------------------------------------------------------------
(* The traffic light on its own: update is applied with steps and vehicle  *)
(* lists drawn from bounded sets, toggle_adaptive at any time.             *)

MaxStep == 5              \* scaled steps 1..MaxStep quanta
LongStep == 101           \* a scaled step longer than a green and a yellow phase
MaxQueue == 3             \* slow vehicles per lane group in a vehicle list

\* A stopped or slow vehicle near the stop line, the k-th of its group
queued_vehicle(k, direction, speed) ==
    [NewVehicle(IF direction = 1 THEN INTERSECTION_X - 60 * k
                ELSE INTERSECTION_X + 60 * k,
                LaneY(IF direction = 1 THEN k % 2 ELSE 2 + (k % 2), CAR_NORMAL_WIDTH),
                IF direction = 1 THEN k % 2 ELSE 2 + (k % 2),
                direction, "car")
       EXCEPT !.speed = speed]

\* Vehicle lists handed to TrafficLight.update: a rightbound slow ones (speed
\* 0 or 9), b leftbound slow ones, then a vehicle of speed 10 at the stop
\* line and a stopped one 200 units from it (neither is queued).
LightVehicleLists ==
    { [k \in 1..a |-> queued_vehicle(k, 1, 9 * (k % 2))]
         \o [k \in 1..b |-> queued_vehicle(k, -1, 9 * (k % 2))]
         \o << queued_vehicle(1, 1, 10),
               [queued_vehicle(1, -1, 0) EXCEPT !.x = INTERSECTION_X + 200 + CAR_NORMAL_LENGTH] >> :
        a \in 0..MaxQueue, b \in 0..MaxQueue }

LightStates == {"ew_green", "ew_yellow", "ns_green", "ns_yellow"}

IsGreen(st) == st \in {"ew_green", "ns_green"}

\* The vehicles of the lane group of a green phase that count as queued:
\* speed below 10, front within 200 units of the intersection.
GreenAxisQueue(st, vs) ==
    Cardinality({ j \in 1..Len(vs) :
                    /\ vs[j].speed < 10
                    /\ Abs((IF vs[j].direction = 1 THEN vs[j].x
                            ELSE vs[j].x - vs[j].length) - INTERSECTION_X) < 200
                    /\ vs[j].lane \in (IF st = "ew_green" THEN {0, 1} ELSE {2, 3}) })

\* History of the light: the last update; whether the queue of the green axis
\* was above the threshold at this update (high), at every update of the
\* current phase (phase_high) or at none (phase_low), all of them in adaptive
\* mode (phase_adaptive); the simulated time since the light last entered
\* ew_green in a cycle run in fixed mode throughout (-1 otherwise), and the
\* length of such a cycle in the update that ends it (-1 otherwise).
LightHistory(tl, d, vs, after) ==
    LET changed == after.state # tl.state
        fresh == last.op = "init" \/ last.changed
        high == GreenAxisQueue(tl.state, vs) > ADAPTIVE_LIGHT_THRESHOLD
        entered == changed /\ after.state = "ew_green"
        fixed == ~tl.adaptive_mode /\ last.since_entry >= 0
    IN [op |-> "light_update", d |-> d, before |-> tl,
        changed |-> changed,
        high |-> high,
        phase_adaptive |-> tl.adaptive_mode /\ (fresh \/ last.phase_adaptive),
        phase_high |-> high /\ (fresh \/ last.phase_high),
        phase_low |-> ~high /\ (fresh \/ last.phase_low),
        since_entry |-> IF entered THEN 0
                        ELSE IF fixed THEN last.since_entry + d
                        ELSE -1,
        cycle_len |-> IF entered /\ fixed THEN last.since_entry + d ELSE -1]

InitRest ==
    /\ paused = FALSE
    /\ time_scale = 2
    /\ spawn_timer = 0
    /\ pedestrian_spawn_timer = 0
    /\ total_cars_passed = 0
    /\ simulation_time = 0

LightInit ==
    /\ InitRest
    /\ vehicles = << >>
    /\ pedestrians = << >>
    /\ traffic_light = NewTrafficLight
    /\ last = [op |-> "init", changed |-> FALSE, high |-> FALSE,
               phase_adaptive |-> FALSE, phase_high |-> FALSE, phase_low |-> FALSE,
               since_entry |-> -1, cycle_len |-> -1]

LightUpdate ==
    \E d \in 1..MaxStep, vs \in LightVehicleLists :
       /\ traffic_light' = TrafficLight_update(traffic_light, d, vs)
       /\ last' = LightHistory(traffic_light, d, vs, traffic_light')
       /\ UNCHANGED << vehicles, pedestrians, paused, time_scale, spawn_timer,
                       pedestrian_spawn_timer, total_cars_passed, simulation_time >>

LightToggle ==
    /\ traffic_light' = toggle_adaptive(traffic_light)
    /\ last' = [last EXCEPT !.op = IF last.op = "init" THEN "init" ELSE "toggle_adaptive",
                             !.since_entry = -1, !.cycle_len = -1]
    /\ UNCHANGED << vehicles, pedestrians, paused, time_scale, spawn_timer,
                    pedestrian_spawn_timer, total_cars_passed, simulation_time >>

LightNext == LightUpdate \/ LightToggle

SpecLight == LightInit /\ [][LightNext]_vars

\* The light updated with short and with long steps (a frame may take any
\* time); the history keeps the last update only, not the phase or the cycle.
LightUpdateAnyStep ==
    \E d \in (1..MaxStep) \cup {LongStep}, vs \in LightVehicleLists :
       /\ traffic_light' = TrafficLight_update(traffic_light, d, vs)
       /\ last' = [LightHistory(traffic_light, d, vs, traffic_light')
                     EXCEPT !.phase_adaptive = FALSE, !.phase_high = FALSE,
                            !.phase_low = FALSE, !.since_entry = -1, !.cycle_len = -1]
       /\ UNCHANGED << vehicles, pedestrians, paused, time_scale, spawn_timer,
                       pedestrian_spawn_timer, total_cars_passed, simulation_time >>

LightNextAnyStep == LightUpdateAnyStep \/ LightToggle

SpecLightAnyStep == LightInit /\ [][LightNextAnyStep]_vars

---------------------------------------------------------------------------
(* Properties of the traffic light (SpecLight)                             *)

NextPhase(st) ==
    CASE st = "ew_green"  -> "ew_yellow"
      [] st = "ew_yellow" -> "ns_green"
      [] st = "ns_green"  -> "ns_yellow"
      [] st = "ns_yellow" -> "ew_green"

\* C2: every change of the light's state goes to the cyclic successor
\* ew_green -> ew_yellow -> ns_green -> ns_yellow -> ew_green of the state
\* before, and the phase timer is 0 right after the change, in fixed and in
\* adaptive mode.
C2_CyclicOrder ==
    [][traffic_light'.state # traffic_light.state
         => /\ traffic_light'.state = NextPhase(traffic_light.state)
            /\ traffic_light'.timer = 0]_vars

\* C2 witness: an update in adaptive mode has just closed the cycle.
C2_Witness ==
    /\ last.op = "light_update"
    /\ last.changed
    /\ last.before.state = "ns_yellow"
    /\ traffic_light.state = "ew_green"
    /\ traffic_light.adaptive_mode

\* C3: in fixed mode the simulated time between two consecutive entries into
\* ew_green is exactly 2 * (LIGHT_GREEN_TIME + LIGHT_YELLOW_TIME), whatever
\* the steps.
C3_CycleExact ==
    last.cycle_len >= 0 => last.cycle_len = 2 * (LIGHT_GREEN_TIME + LIGHT_YELLOW_TIME)

\* C10: in adaptive mode a green phase during whose every update the queue of
\* the green axis is above ADAPTIVE_LIGHT_THRESHOLD ends in the first update
\* that brings the timer to 1.5 * LIGHT_GREEN_TIME, not before; a green phase
\* during which the queue is never above the threshold ends in the first
\* update that brings the timer to LIGHT_GREEN_TIME.
C10_AdaptiveGreen ==
    (last.op = "light_update" /\ IsGreen(last.before.state) /\ last.phase_adaptive)
      => /\ last.phase_high =>
              (last.changed <=> 2 * (last.before.timer + last.d) >= 3 * LIGHT_GREEN_TIME)
         /\ last.phase_low =>
              (last.changed <=> last.before.timer + last.d >= LIGHT_GREEN_TIME)

\* C10 witness: an ns_green phase with the queue above the threshold at every
\* update ends, in adaptive mode.
C10_Witness ==
    /\ last.op = "light_update"
    /\ last.before.state = "ns_green"
    /\ last.phase_adaptive
    /\ last.phase_high
    /\ last.changed

---------------------------------------------------------------------------
(* Properties of the traffic light under steps of any length               *)
(* (SpecLightAnyStep)                                                      *)

\* The duration an update compares the timer with: LIGHT_YELLOW_TIME in a
\* yellow state; in a green state LIGHT_GREEN_TIME, or 1.5 times that in
\* adaptive mode with the queue of the green axis above the threshold.
DurationApplied(tl, high) ==
    IF ~IsGreen(tl.state) THEN LIGHT_YELLOW_TIME
    ELSE IF tl.adaptive_mode /\ high THEN (LIGHT_GREEN_TIME * 3) \div 2
    ELSE LIGHT_GREEN_TIME

\* C27: an update of the light makes at most one transition, to the cyclic
\* successor of its state, however long the step; after the update the timer
\* is 0 if the state has changed, and otherwise is the advanced timer and is
\* below the duration this update applied to the state.
C27_OneTransition ==
    last.op = "light_update" =>
       LET b == last.before
           applied == DurationApplied(b, last.high)
       IN /\ traffic_light.state \in {b.state, NextPhase(b.state)}
          /\ traffic_light.state = NextPhase(b.state)
                => /\ traffic_light.timer = 0
                   /\ b.timer + last.d >= applied
          /\ traffic_light.state = b.state
                => /\ traffic_light.timer = b.timer + last.d
                   /\ traffic_light.timer < applied

\* C27 witness: a step longer than the yellow phase and the green phase after
\* it together has ended the yellow phase and begun the green phase.
C27_Witness ==
    /\ last.op = "light_update"
    /\ last.d > LIGHT_YELLOW_TIME + LIGHT_GREEN_TIME
    /\ last.before.state = "ew_yellow"
    /\ traffic_light.state = "ns_green"
    /\ traffic_light.timer = 0

---------------------------------------------------------------------------
(* One pedestrian on its own: update is applied with steps and light       *)
(* states drawn from bounded sets, also to a pedestrian that is done.      *)

MaxPedStep == 4           \* scaled steps 0..MaxPedStep quanta
MaxWait == 24             \* a waiting pedestrian is updated up to this wait_timer

PedInit ==
    /\ InitRest
    /\ vehicles = << >>
    /\ traffic_light = NewTrafficLight
    /\ \E side \in {"top", "bottom"}, direction \in {1, -1} :
          pedestrians = << NewPedestrian(side, direction) >>
    /\ last = [op |-> "init"]

PedUpdate ==
    \E d \in 0..MaxPedStep, st \in LightStates :
       /\ pedestrians[1].state = "waiting" => pedestrians[1].wait_timer < MaxWait
       /\ pedestrians' = << Pedestrian_update(pedestrians[1], d,
                               [traffic_light EXCEPT !.state = st]) >>
       /\ last' = [op |-> "pedestrian_update", d |-> d, light |-> st,
                   before |-> pedestrians[1]]
       /\ UNCHANGED << vehicles, traffic_light, paused, time_scale, spawn_timer,
                       pedestrian_spawn_timer, total_cars_passed, simulation_time >>

PedNext == PedUpdate

SpecPed == PedInit /\ [][PedNext]_vars

\* The pedestrian's y has reached or passed its target
Reached(p) == IF p.side = "top" THEN p.y >= p.target_y ELSE p.y <= p.target_y

\* C7: a pedestrian only moves waiting -> crossing -> done: an update never
\* takes it from crossing to waiting nor from waiting to done, it becomes done
\* in exactly the update in which its y first reaches or passes target_y, and
\* an update of a done pedestrian changes nothing of it.
C7_PedestrianOrder ==
    /\ pedestrians[1].state = "crossing" => ~Reached(pedestrians[1])
    /\ last.op = "pedestrian_update" =>
         LET b == last.before
             a == pedestrians[1]
         IN /\ b.state = "waiting" => a.state \in {"waiting", "crossing"}
            /\ b.state = "crossing" => a.state \in {"crossing", "done"}
            /\ b.state = "done" => a = b
            /\ (b.state = "crossing" /\ a.state = "done") => (Reached(a) /\ ~Reached(b))
            /\ (b.state = "crossing" /\ Reached(a)) => a.state = "done"

\* C7 witness: a done pedestrian has been updated again with a positive step.
C7_Witness ==
    /\ last.op = "pedestrian_update"
    /\ last.before.state = "done"
    /\ last.d > 0
    /\ pedestrians[1].y = pedestrians[1].target_y

---------------------------------------------------------------------------
(* Vehicles on their own: update and attempt_lane_change are applied to    *)
(* small traffic situations, a few operations each.  Situations are given  *)
(* for rightbound traffic and mirrored for leftbound traffic.              *)

MaxVehStep == 3           \* scaled steps 1..MaxVehStep quanta
MaxOps == 2               \* operations applied to one situation

\* A vehicle of class t whose rear is at xr of the rightbound picture, in
\* lane laner of the rightbound picture, as it is for the direction.
Place(t, direction, laner, xr, speed, cooldown) ==
    LET lane == IF direction = 1 THEN laner ELSE 3 - laner
    IN [NewVehicle(IF direction = 1 THEN xr ELSE SCREEN_WIDTH - xr,
                   LaneY(lane, CAR_NORMAL_WIDTH), lane, direction, t)
          EXCEPT !.speed = speed, !.lane_change_cooldown = cooldown]

Len_(t) == ClassParams(t).length
Top(t) == ClassParams(t).max_speed
Cruise(t) == (ClassParams(t).max_speed * 8) \div 10

\* One vehicle approaching the stop line
AloneSituations ==
    { << Place(t, d, 0, x - Len_(t), IF fast THEN Top(t) ELSE 0, 0) >> :
        t \in VehicleTypes, d \in {1, -1}, x \in {440, 520, 530, 560}, fast \in BOOLEAN }

\* A vehicle behind a leader of its lane, far from or near the stop line
FollowSituations ==
    UNION { { << Place(t, d, 0, x, sp, 0),
                 Place(tl, d, 0, x + Len_(t) + g, spl, 0) >> :
                sp \in {Cruise(t), Top(t)}, spl \in {0, Cruise(tl)} } :
            t \in VehicleTypes, tl \in {"truck", "sports"}, d \in {1, -1},
            x \in {100, 400}, g \in {30, 100, 200} }

\* Vehicle A at x = 100 with speed 50, vehicle B at x = 130, both in lane 0, rightbound
ScenarioSituations ==
    { << Place(t, 1, 0, 100, 50, 0), Place(tb, 1, 0, 130, spb, 0) >> :
        t \in VehicleTypes, tb \in VehicleTypes, spb \in {0, 40, 100} }

\* A vehicle behind a leader with an occupant of the adjacent lane: f units
\* ahead of its front (f >= 0), or -f - 1 units behind its rear (f < 0)
LaneChangeSituations ==
    { << Place(t, d, 0, 200, Cruise(t), cd),
         Place("car", d, 0, 200 + Len_(t) + 100, 0, 0),
         Place(tocc, d, 1, IF f >= 0 THEN 200 + Len_(t) + f
                           ELSE 200 + f + 1 - Len_(tocc), Cruise(tocc), 0) >> :
        t \in VehicleTypes \ {"ambulance"}, tocc \in VehicleTypes, d \in {1, -1},
        cd \in {0, 2, 10}, f \in {10, 59, 60, 150, -11, -60, -61} }

\* An ambulance with a vehicle 100 units ahead of it in its lane, that vehicle
\* with or without a leader of its own, before or after the ambulance in the list
AmbulanceSituations ==
    UNION { LET amb == Place("ambulance", d, 0, 100, Cruise("ambulance"), 0)
                blk == Place(t, d, 0, 100 + AMBULANCE_LENGTH + 100, Cruise(t), cd)
                ldr == Place("car", d, 0, 100 + AMBULANCE_LENGTH + 100 + Len_(t) + 50, 0, 0)
            IN { << amb, blk >>, << blk, amb >>, << amb, blk, ldr >>, << ldr, blk, amb >> } :
            t \in VehicleTypes \ {"ambulance"}, d \in {1, -1}, cd \in {0, 10} }

\* One vehicle about to leave the intersection: its rear at the far side, or
\* its front 5 before it
CrossingSituations ==
    { << Place(t, d, 0, INTERSECTION_X + INTERSECTION_WIDTH
                          - (IF inside THEN Len_(t) + 5 ELSE 10),
               IF fast THEN Top(t) ELSE 50, 0) >> :
        t \in VehicleTypes, d \in {1, -1}, fast \in BOOLEAN, inside \in BOOLEAN }

VehInit ==
    /\ InitRest
    /\ pedestrians = << >>
    /\ \/ /\ vehicles \in AloneSituations \cup FollowSituations
          /\ \E st \in LightStates : traffic_light = [NewTrafficLight EXCEPT !.state = st]
       \/ /\ vehicles \in ScenarioSituations \cup LaneChangeSituations
                           \cup AmbulanceSituations \cup CrossingSituations
          /\ traffic_light = NewTrafficLight
    /\ last = [op |-> "init", n |-> 0]

VehFrame == UNCHANGED << pedestrians, traffic_light, paused, time_scale, spawn_timer,
                         pedestrian_spawn_timer, total_cars_passed, simulation_time >>

VehUpdate ==
    \E i \in 1..Len(vehicles), d \in 1..MaxVehStep :
       /\ last.n < MaxOps
       /\ vehicles[i].vehicle_type # "ambulance"
       /\ vehicles' = update_vehicle(vehicles, i, d, traffic_light)
       /\ last' = [op |-> "vehicle_update", n |-> last.n + 1, i |-> i, d |-> d,
                   before |-> vehicles]
       /\ VehFrame

AmbUpdate ==
    \E i \in 1..Len(vehicles), d \in 1..MaxVehStep :
       /\ last.n < MaxOps
       /\ vehicles[i].vehicle_type = "ambulance"
       /\ vehicles' = update_vehicle(vehicles, i, d, traffic_light)
       /\ last' = [op |-> "ambulance_update", n |-> last.n + 1, i |-> i, d |-> d,
                   before |-> vehicles]
       /\ VehFrame

VehAttemptLaneChange ==
    \E i \in 1..Len(vehicles) :
       /\ last.n < MaxOps
       /\ vehicles[i].vehicle_type # "ambulance"
       /\ vehicles' = attempt_lane_change(vehicles, i)
       /\ last' = [op |-> "attempt_lane_change", n |-> last.n + 1, i |-> i, d |-> 0,
                   before |-> vehicles]
       /\ VehFrame

\* can_change_lane(target_lane, vehicles) asked of a vehicle: a query, the
\* answer is kept in the history
VehCanChangeLane ==
    \E i \in 1..Len(vehicles), target_lane \in 0..(NUM_LANES - 1) :
       /\ last.n < MaxOps
       /\ last' = [op |-> "can_change_lane", n |-> last.n + 1, i |-> i, d |-> 0,
                   before |-> vehicles, target_lane |-> target_lane,
                   result |-> can_change_lane(vehicles, i, target_lane)]
       /\ UNCHANGED vehicles
       /\ VehFrame

VehNext == VehUpdate \/ AmbUpdate \/ VehAttemptLaneChange \/ VehCanChangeLane

SpecVeh == VehInit /\ [][VehNext]_vars

---------------------------------------------------------------------------
(* Properties of the vehicles (SpecVeh)                                    *)

\* The stretch of road a vehicle covers (get_rect): from Lo to Hi
Lo(v) == IF v.direction = 1 THEN v.x ELSE v.x - v.length
Hi(v) == IF v.direction = 1 THEN v.x + v.length ELSE v.x

\* The clearance between two vehicles along the road, negative when they overlap
Clearance(a, b) == Max(Lo(b) - Hi(a), Lo(a) - Hi(b))

\* The other lane of the vehicle's direction group
AdjacentLane(v) ==
    IF v.lane = 0 THEN 1 ELSE IF v.lane = 1 THEN 0 ELSE IF v.lane = 2 THEN 3 ELSE 2

\* Some same-direction occupant of the lane is closer to v than LANE_CHANGE_MIN_GAP
LaneTooClose(vs, i, lane) ==
    \E j \in 1..Len(vs) :
       /\ j # i
       /\ vs[j].lane = lane
       /\ vs[j].direction = vs[i].direction
       /\ Clearance(vs[i], vs[j]) < LANE_CHANGE_MIN_GAP

\* C1: every vehicle has 0 <= speed <= max_speed after each update, also
\* behind a leader faster than its own max_speed.
C1_SpeedInRange ==
    \A j \in 1..Len(vehicles) :
       0 <= vehicles[j].speed /\ vehicles[j].speed <= vehicles[j].max_speed

\* C4: an attempt_lane_change of a vehicle whose clearance to some
\* same-direction occupant of the target lane is below LANE_CHANGE_MIN_GAP
\* leaves its lane, lane_change_cooldown and y as they were.
C4_GapRespected ==
    (last.op = "attempt_lane_change"
       /\ LaneTooClose(last.before, last.i, AdjacentLane(last.before[last.i])))
      => /\ vehicles[last.i].lane = last.before[last.i].lane
         /\ vehicles[last.i].lane_change_cooldown = last.before[last.i].lane_change_cooldown
         /\ vehicles[last.i].y = last.before[last.i].y

\* Vehicle j blocks the ambulance i: no ambulance, 100 units ahead of it in
\* its lane and direction, cooldown expired, adjacent lane with sufficient gap
Blocks(vs, i, j) ==
    /\ j # i
    /\ vs[j].vehicle_type # "ambulance"
    /\ vs[j].lane = vs[i].lane
    /\ vs[j].direction = vs[i].direction
    /\ distance_to_vehicle(vs[i], vs[j]) = 100
    /\ vs[j].lane_change_cooldown <= 0
    /\ ~LaneTooClose(vs, j, AdjacentLane(vs[j]))

\* C5: the update of an ambulance changes the lane of a vehicle that blocks
\* it, in that same update, whatever is ahead of that vehicle and wherever it
\* stands in the list.
C5_AmbulanceClears ==
    last.op = "ambulance_update" =>
       \A j \in 1..Len(vehicles) :
          Blocks(last.before, last.i, j) => vehicles[j].lane # last.before[j].lane

\* C6: one update of the rightbound vehicle A (lane 0, x = 100, speed 50)
\* with B in lane 0 at x = 130 and no light rule applying sets A's
\* target_speed to 0.9 * B.speed and lowers A's speed if it was above that.
C6_Scenario ==
    (/\ last.op = "vehicle_update"
     /\ Len(last.before) = 2
     /\ last.before[last.i].lane = 0 /\ last.before[last.i].direction = 1
     /\ last.before[last.i].x = 100 /\ last.before[last.i].speed = 50
     /\ last.before[3 - last.i].lane = 0 /\ last.before[3 - last.i].direction = 1
     /\ last.before[3 - last.i].x = 130)
      => /\ vehicles[last.i].target_speed = (last.before[3 - last.i].speed * 9) \div 10
         /\ (50 > vehicles[last.i].target_speed => vehicles[last.i].speed < 50)

\* C9: an update changes the vehicle's speed by at most 1.5 * acceleration *
\* step, for the standard and the ambulance update.
C9_RateBound ==
    last.op \in {"vehicle_update", "ambulance_update"} =>
       2 * TQ * Abs(vehicles[last.i].speed - last.before[last.i].speed)
          <= 3 * last.before[last.i].acceleration * last.d

\* C9 witness: a vehicle at full speed has just been told to stop for the
\* light and has braked by the full 1.5 * acceleration * step.
C9_Witness ==
    /\ last.op = "vehicle_update"
    /\ last.before[last.i].speed = last.before[last.i].max_speed
    /\ vehicles[last.i].target_speed = 0
    /\ 2 * TQ * (last.before[last.i].speed - vehicles[last.i].speed)
          = 3 * last.before[last.i].acceleration * last.d

\* The lane belongs to the lane group of the vehicle's direction
InGroup(v, lane) ==
    \/ v.direction = 1 /\ lane \in {0, 1}
    \/ v.direction = -1 /\ lane \in {2, 3}

\* C12: can_change_lane answers False for a target lane outside the lane
\* group of the vehicle's direction, whatever occupies that lane, and
\* whenever the vehicle's cooldown is active.
C12_GroupChecked ==
    last.op = "can_change_lane" =>
       ((\/ ~InGroup(last.before[last.i], last.target_lane)
         \/ last.before[last.i].lane_change_cooldown > 0)
          => ~last.result)

\* C16: no timer is negative: the vehicles' lane_change_cooldown, the light's
\* timer, the pedestrians' wait_timer and the two spawn timers.
C16_TimersNonNegative ==
    /\ \A j \in 1..Len(vehicles) : vehicles[j].lane_change_cooldown >= 0
    /\ traffic_light.timer >= 0
    /\ \A j \in 1..Len(pedestrians) : pedestrians[j].wait_timer >= 0
    /\ spawn_timer >= 0
    /\ pedestrian_spawn_timer >= 0

\* The leading edge of a vehicle (get_front_x) and whether it is beyond the
\* far side of the intersection
LeadingEdge(v) == IF v.direction = 1 THEN v.x ELSE v.x - v.length
BeyondFarSide(v) ==
    IF v.direction = 1 THEN LeadingEdge(v) > INTERSECTION_X + INTERSECTION_WIDTH
    ELSE LeadingEdge(v) < INTERSECTION_X

\* C20: an update sets passed_intersection exactly when it leaves the
\* vehicle's leading edge beyond the far side of the intersection, for both
\* directions, and never sets it back to False.
C20_PassedFlag ==
    last.op \in {"vehicle_update", "ambulance_update"} =>
       LET a == vehicles[last.i]
           b == last.before[last.i]
       IN /\ b.passed_intersection => a.passed_intersection
          /\ ~b.passed_intersection => (a.passed_intersection <=> BeyondFarSide(a))

\* The light shows this colour to the vehicle
Shows(v, colour) == get_light_state(traffic_light, v.direction) = colour

\* C22: the light never gives an ambulance the target speed 0: with a red
\* light and the stop line less than 80 units ahead its target speed is half
\* its max_speed, and with a yellow or green light its target speed is what
\* it would be without the light.
C22_AmbulanceSoftSlow ==
    last.op = "ambulance_update" =>
       LET b == last.before[last.i]
           a == vehicles[last.i]
           unlit == ambulance_target_speed([vehicles EXCEPT ![last.i] = b], last.i,
                                           [traffic_light EXCEPT !.state = "ew_green"])
       IN /\ (Shows(b, "red") /\ distance_to_light(b) > 0 /\ distance_to_light(b) < 80)
                => a.target_speed = b.max_speed \div 2
          /\ ~Shows(b, "red") => a.target_speed = unlit
          /\ Len(vehicles) = 1 => a.target_speed > 0

\* C23: the update of a vehicle that is no ambulance changes no other
\* vehicle and not the light; the update of an ambulance changes of other
\* vehicles only lane, y and lane_change_cooldown, and only of vehicles that
\* are no ambulances and are less than 150 units ahead of it in its lane.
C23_UpdateFrame ==
    [][ /\ last'.op = "vehicle_update" =>
             /\ \A j \in 1..Len(vehicles) : j # last'.i => vehicles'[j] = vehicles[j]
             /\ traffic_light' = traffic_light
        /\ last'.op = "ambulance_update" =>
             /\ traffic_light' = traffic_light
             /\ \A j \in 1..Len(vehicles) :
                   j # last'.i =>
                      LET b == vehicles[j]
                          a == vehicles'[j]
                          amb == vehicles[last'.i]
                      IN /\ a = [b EXCEPT !.lane = a.lane, !.y = a.y,
                                          !.lane_change_cooldown = a.lane_change_cooldown]
                         /\ a # b => /\ b.vehicle_type # "ambulance"
                                     /\ b.lane = amb.lane
                                     /\ b.direction = amb.direction
                                     /\ distance_to_vehicle(amb, b) > 0
                                     /\ distance_to_vehicle(amb, b) < 150
      ]_vars

\* C23 witness: the update of an ambulance has moved the vehicle ahead of it
\* to the other lane.
C23_Witness ==
    /\ last.op = "ambulance_update"
    /\ \E j \in 1..Len(vehicles) :
          /\ vehicles[j].lane # last.before[j].lane
          /\ vehicles[j].y # last.before[j].y
          /\ vehicles[j].x = last.before[j].x

\* C24: a vehicle that changes lane has no active cooldown and gets the
\* cooldown LANE_CHANGE_COOLDOWN; a cooldown otherwise changes only in the
\* vehicle's own update, going down by the step.  So the vehicle changes lane
\* again only after updates of LANE_CHANGE_COOLDOWN in all.
C24_CooldownHolds ==
    last.op \in {"vehicle_update", "ambulance_update", "attempt_lane_change"} =>
       \A j \in 1..Len(vehicles) :
          LET b == last.before[j]
              a == vehicles[j]
          IN /\ a.lane # b.lane
                  => /\ b.lane_change_cooldown <= 0
                     /\ a.lane_change_cooldown = LANE_CHANGE_COOLDOWN
             /\ (a.lane = b.lane /\ a.lane_change_cooldown # b.lane_change_cooldown)
                  => /\ last.op # "attempt_lane_change"
                     /\ j = last.i
                     /\ b.lane_change_cooldown > 0
                     /\ a.lane_change_cooldown = b.lane_change_cooldown - last.d

\* C24 witness: a vehicle with a leader close ahead and room in the other
\* lane has attempted a lane change during its cooldown, and kept its lane.
C24_Witness ==
    /\ last.op = "attempt_lane_change"
    /\ last.before[last.i].lane_change_cooldown > 0
    /\ can_change_lane([last.before EXCEPT ![last.i].lane_change_cooldown = 0],
                       last.i, AdjacentLane(last.before[last.i]))
    /\ find_vehicle_ahead(last.before, last.i) # 0
    /\ distance_to_vehicle(last.before[last.i],
                           last.before[find_vehicle_ahead(last.before, last.i)])
          <= 2 * SAFE_DISTANCE
    /\ vehicles = last.before

\* Two vehicles of one lane and direction cover a common stretch of road
Overlap(a, b) ==
    /\ a.lane = b.lane
    /\ a.direction = b.direction
    /\ Clearance(a, b) < 0

NoOverlap(vs) == \A j, k \in 1..Len(vs) : j # k => ~Overlap(vs[j], vs[k])

\* How far along its way a vehicle is
Progress(v) == v.x * v.direction

\* C25: an update or a lane change applied to vehicles none of which overlap
\* leaves no two vehicles of one lane and direction overlapping, and no
\* vehicle ahead of one of its lane that it was behind.
C25_NoCollision ==
    (/\ last.op \in {"vehicle_update", "ambulance_update", "attempt_lane_change"}
     /\ NoOverlap(last.before))
      => /\ NoOverlap(vehicles)
         /\ \A j, k \in 1..Len(vehicles) :
               (/\ last.before[j].lane = last.before[k].lane
                /\ last.before[j].direction = last.before[k].direction
                /\ vehicles[j].lane = vehicles[k].lane
                /\ Progress(last.before[j]) < Progress(last.before[k]))
                  => Progress(vehicles[j]) <= Progress(vehicles[k])

\* C26: the update of a vehicle that is no ambulance, whose front is before
\* its stop line, with the light red or yellow for it, leaves its front at or
\* before the stop line.
C26_StopsAtLine ==
    (/\ last.op = "vehicle_update"
     /\ distance_to_light(last.before[last.i]) > 0
     /\ (Shows(last.before[last.i], "red") \/ Shows(last.before[last.i], "yellow")))
      => distance_to_light(vehicles[last.i]) >= 0

---------------------------------------------------------------------------
(* The running simulation with one vehicle on the road at a time, without  *)
(* end: update is called with a fixed frame time for ever (main's loop),   *)
(* the time scale is chosen at the start, counters saturate.               *)

LiveDt == 2               \* the frame time dt, in quanta
LiveVehicles == 1         \* vehicles on the road at a time
LivePedestrians == 0      \* pedestrians on the pavement at a time
LiveCount == 1            \* simulation_time and total_cars_passed stop counting here

LiveCaps == [vehicles |-> LiveVehicles, pedestrians |-> LivePedestrians,
             counters |-> LiveCount]

LiveInit ==
    /\ paused = FALSE
    /\ time_scale \in {2, 4}
    /\ spawn_timer = 0
    /\ pedestrian_spawn_timer = 0
    /\ total_cars_passed = 0
    /\ simulation_time = 0
    /\ pedestrians = << >>
    /\ \E st \in LightStates : traffic_light = [NewTrafficLight EXCEPT !.state = st]
    /\ \E r \in VehicleDraws : vehicles = spawn_vehicle(<< >>, r, LiveVehicles)
    /\ last = [op |-> "init", removed |-> << >>]

LiveTick == Tick(LiveDt, LiveCaps, [op |-> "tick", removed |-> << >>])

LiveNext == LiveTick

SpecLive == LiveInit /\ [][LiveNext]_vars /\ WF_vars(LiveTick)

\* A rightbound vehicle, no ambulance, leads the list with nothing ahead of it
C8_Unobstructed ==
    /\ Len(vehicles) >= 1
    /\ vehicles[1].direction = 1
    /\ vehicles[1].vehicle_type # "ambulance"
    /\ find_vehicle_ahead(vehicles, 1) = 0

\* The update just made removed a rightbound vehicle, no ambulance, beyond
\* the +x bound with passed_intersection set
C8_Removed ==
    \E k \in 1..Len(last.removed) :
       /\ last.removed[k].direction = 1
       /\ last.removed[k].vehicle_type # "ambulance"
       /\ last.removed[k].x > SCREEN_WIDTH + 100
       /\ last.removed[k].passed_intersection

\* C8: with the simulation running (positive dt and time_scale, not paused)
\* a rightbound non-ambulance vehicle with no vehicle ahead of it is
\* eventually removed beyond the +x bound, whatever the light shows when it
\* nears the stop line, and every rightbound vehicle removed has
\* passed_intersection set.
C8_ExitsRoad ==
    /\ C8_Unobstructed ~> C8_Removed
    /\ [](\A k \in 1..Len(last.removed) :
             last.removed[k].direction = 1 => last.removed[k].passed_intersection)

\* C8 witness: a rightbound vehicle that the light had stopped has been removed.
C8_Witness ==
    \E k \in 1..Len(last.removed) :
       /\ last.removed[k].direction = 1
       /\ last.removed[k].vehicle_type # "ambulance"
       /\ last.removed[k].stopped_at_light
       /\ last.removed[k].passed_intersection

---------------------------------------------------------------------------
(* The running simulation with pedestrians only, without end: update is    *)
(* called with a fixed frame time for ever (main's loop), the time scale   *)
(* is chosen at the start, one pedestrian is on the pavement at a time,    *)
(* counters saturate.                                                      *)

CrossPedestrians == 1     \* pedestrians on the pavement at a time
CrossCount == 1           \* simulation_time stops counting here

CrossCaps == [vehicles |-> 0, pedestrians |-> CrossPedestrians, counters |-> CrossCount]

CrossInit ==
    /\ paused = FALSE
    /\ time_scale \in {2, 4, 5}
    /\ spawn_timer = 0
    /\ pedestrian_spawn_timer = 0
    /\ total_cars_passed = 0
    /\ simulation_time = 0
    /\ vehicles = << >>
    /\ \E st \in LightStates : traffic_light = [NewTrafficLight EXCEPT !.state = st]
    /\ \E r \in PedestrianDraws : pedestrians = spawn_pedestrian(<< >>, r, CrossPedestrians)
    /\ last = [op |-> "init", d |-> 0, walked |-> << >>, before |-> Sim]

CrossTick ==
    Tick(LiveDt, CrossCaps, [op |-> "tick", d |-> 0, walked |-> << >>, before |-> Sim])

CrossNext == CrossTick

SpecCross == CrossInit /\ [][CrossNext]_vars /\ WF_vars(CrossTick)

---------------------------------------------------------------------------
(* Properties of the pedestrians in the running simulation (SpecCross)     *)

\* The light lets pedestrians start crossing
Walk(tl) == tl.state \in {"ns_green", "ns_yellow"}

\* C21: in an update of the simulation a waiting pedestrian starts crossing
\* if and only if its wait_timer with the step added is above
\* CROSSWALK_WAIT_TIME and the light, as this update has advanced it, is
\* ns_green or ns_yellow; otherwise it keeps waiting.
C21_StartsCrossing ==
    last.op = "tick" =>
       \A j \in 1..Len(last.before.pedestrians) :
          LET b == last.before.pedestrians[j]
              a == last.walked[j]
          IN b.state = "waiting" =>
                /\ a.wait_timer = b.wait_timer + last.d
                /\ a.state \in {"waiting", "crossing"}
                /\ a.state = "crossing"
                      <=> (a.wait_timer > CROSSWALK_WAIT_TIME /\ Walk(traffic_light))
                /\ ~Walk(traffic_light) => a.state = "waiting"

\* C21 witness: a pedestrian has started crossing in the update that brought
\* the light from ew_yellow to ns_green.
C21_Witness ==
    /\ last.op = "tick"
    /\ last.before.traffic_light.state = "ew_yellow"
    /\ traffic_light.state = "ns_green"
    /\ \E j \in 1..Len(last.before.pedestrians) :
          /\ last.before.pedestrians[j].state = "waiting"
          /\ last.walked[j].state = "crossing"

\* The update just made removed a pedestrian that reached done in it
C28_Removed ==
    /\ last.op = "tick"
    /\ \E j \in 1..Len(last.walked) :
          /\ last.before.pedestrians[j].state # "done"
          /\ last.walked[j].state = "done"
          /\ \A k \in 1..Len(pedestrians) : pedestrians[k] # last.walked[j]

\* C28: with the simulation running (positive dt and time_scale, not paused)
\* a pedestrian in the list is eventually removed, in the update in which it
\* reaches done; after every update the list holds no pedestrian that is
\* done, and holds the pedestrians of before that are not done, in order.
C28_PedestriansLeave ==
    /\ (pedestrians # << >>) ~> C28_Removed
    /\ [](\A k \in 1..Len(pedestrians) : pedestrians[k].state # "done")
    /\ [](last.op = "tick" =>
            LET staying == SelectSeq(last.walked, LAMBDA p : p.state # "done")
            IN /\ Len(pedestrians) >= Len(staying)
               /\ SubSeq(pedestrians, 1, Len(staying)) = staying)

\* C28 witness: a pedestrian that had waited through a phase of the light
\* and then crossed has been removed.
C28_Witness ==
    /\ C28_Removed
    /\ \E j \in 1..Len(last.walked) :
          /\ last.walked[j].state = "done"
          /\ last.walked[j].wait_timer > LIGHT_GREEN_TIME

---------------------------------------------------------------------------
(* The whole simulation: the constructor, then update(dt) and the key      *)
(* commands in any order, MaxTicks of them to a run.                       *)

SimCaps == [vehicles |-> MaxVehicles, pedestrians |-> MaxPedestrians,
            counters |-> MaxSimTime]

\* TrafficSimulation.__init__
Init ==
    /\ paused = FALSE
    /\ time_scale = 2
    /\ spawn_timer = 0
    /\ pedestrian_spawn_timer = 0
    /\ total_cars_passed = 0
    /\ simulation_time = 0
    /\ pedestrians = << >>
    /\ traffic_light = NewTrafficLight
    /\ vehicles \in InitialVehicleLists
    /\ last = [op |-> "init", n |-> 0, removed |-> << >>]

SimTick ==
    /\ last.n < MaxTicks
    /\ \E dt \in 1..MaxDt :
          Tick(dt, SimCaps, [op |-> "tick", n |-> last.n + 1, removed |-> << >>])

KeyFrame == UNCHANGED << vehicles, pedestrians, spawn_timer, pedestrian_spawn_timer,
                         total_cars_passed, simulation_time >>

\* handle_keypress(K_SPACE)
KeySpace ==
    /\ last.n < MaxTicks
    /\ paused' = ~paused
    /\ last' = [op |-> "key_space", n |-> last.n + 1, removed |-> << >>]
    /\ UNCHANGED << traffic_light, time_scale >>
    /\ KeyFrame

\* handle_keypress(K_UP)
KeyUp ==
    /\ last.n < MaxTicks
    /\ time_scale' = Min(time_scale + TIME_SCALE_STEP, TIME_SCALE_MAX)
    /\ last' = [op |-> "key_up", n |-> last.n + 1, removed |-> << >>]
    /\ UNCHANGED << traffic_light, paused >>
    /\ KeyFrame

\* handle_keypress(K_DOWN)
KeyDown ==
    /\ last.n < MaxTicks
    /\ time_scale' = Max(time_scale - TIME_SCALE_STEP, TIME_SCALE_MIN)
    /\ last' = [op |-> "key_down", n |-> last.n + 1, removed |-> << >>]
    /\ UNCHANGED << traffic_light, paused >>
    /\ KeyFrame

\* handle_keypress(K_a)
KeyA ==
    /\ last.n < MaxTicks
    /\ traffic_light' = toggle_adaptive(traffic_light)
    /\ last' = [op |-> "key_a", n |-> last.n + 1, removed |-> << >>]
    /\ UNCHANGED << paused, time_scale >>
    /\ KeyFrame

\* handle_keypress(K_r): reset_simulation
KeyR ==
    /\ last.n < MaxTicks
    /\ vehicles' \in InitialVehicleLists
    /\ pedestrians' = << >>
    /\ total_cars_passed' = 0
    /\ simulation_time' = 0
    /\ spawn_timer' = 0
    /\ pedestrian_spawn_timer' = 0
    /\ traffic_light' = NewTrafficLight
    /\ last' = [op |-> "key_r", n |-> last.n + 1, removed |-> << >>]
    /\ UNCHANGED << paused, time_scale >>

Next == SimTick \/ KeySpace \/ KeyUp \/ KeyDown \/ KeyA \/ KeyR

Spec == Init /\ [][Next]_vars

---------------------------------------------------------------------------
(* The simulation in mid-run: update(dt) and the key commands from traffic *)
(* situations that a run reaches after some time: vehicles leaving the     *)
(* road, vehicles near the entry of a lane, vehicles following each other, *)
(* an ambulance behind a vehicle, with the spawn timer about to expire.    *)

\* A vehicle that has passed the intersection
PlacePassed(t, direction, laner, xr, speed) ==
    [Place(t, direction, laner, xr, speed, 0) EXCEPT !.passed_intersection = TRUE]

\* One or two vehicles 5 units before the bound at which they are dropped
ExitSituations ==
    UNION { { << PlacePassed(t, d, 0, SCREEN_WIDTH + 95, Cruise(t)) >>,
              << PlacePassed(t, d, 0, SCREEN_WIDTH + 95, Cruise(t)),
                 PlacePassed("car", d, 1, SCREEN_WIDTH + 95, Top("car")),
                 PlacePassed("car", d, 1, SCREEN_WIDTH - 200, Top("car")) >> } :
            t \in VehicleTypes, d \in {1, -1} }

\* A vehicle in lane 0 near the entry of its lane, or clear of it
EntrySituations ==
    { << Place("car", d, 0, xr, Cruise("car"), 0) >> : d \in {1, -1}, xr \in {50, 250} }

\* A vehicle and its leader g units ahead, in either order in the list
PlatoonSituations ==
    UNION { LET a == Place(t, d, 0, 200, Cruise(t), 0)
                b == Place("car", d, 0, 200 + Len_(t) + g, Cruise("car"), 0)
            IN { << a, b >>, << b, a >> } :
            t \in VehicleTypes \ {"ambulance"}, d \in {1, -1}, g \in {100, 165} }

\* An ambulance behind a vehicle, a car or another ambulance, that has a
\* leader of its own
EscortSituations ==
    { LET amb == Place("ambulance", d, 0, 100, Cruise("ambulance"), 0)
          blk == Place(t, d, 0, 100 + AMBULANCE_LENGTH + 100, Cruise(t), 0)
          ldr == Place("car", d, 0, 100 + AMBULANCE_LENGTH + 100 + Len_(t) + 50, 0, 0)
      IN << amb, blk, ldr >> : d \in {1, -1}, t \in {"car", "ambulance"} }

RunInit ==
    /\ paused = FALSE
    /\ time_scale = 2
    /\ spawn_timer \in {0, SPAWN_INTERVAL - 1}
    /\ pedestrian_spawn_timer = 0
    /\ total_cars_passed = 0
    /\ simulation_time = 0
    /\ pedestrians = << >>
    /\ \E st \in LightStates : traffic_light = [NewTrafficLight EXCEPT !.state = st]
    /\ vehicles \in ExitSituations \cup EntrySituations
                       \cup PlatoonSituations \cup EscortSituations
    /\ last = [op |-> "init", n |-> 0, removed |-> << >>]

\* In a run no spawn is held back: the update is not taken once the lists
\* are longer than MaxVehicles and MaxPedestrians
RunCaps == [vehicles |-> MaxVehicles + 2, pedestrians |-> MaxPedestrians + 2,
            counters |-> MaxSimTime]

RunTick ==
    /\ last.n < MaxRunOps
    /\ Len(vehicles) <= MaxVehicles
    /\ Len(pedestrians) <= MaxPedestrians
    /\ \E dt \in {1, MaxDt} :
          Tick(dt, RunCaps, [op |-> "tick", n |-> last.n + 1, before |-> Sim,
                             d |-> 0, lc |-> {}, sv |-> CHOOSE r \in VehicleDraws : TRUE,
                             moved |-> << >>, kept |-> << >>, removed |-> << >>])

\* The key commands a and r, within the operations of a run
RunKeyA == last.n < MaxRunOps /\ KeyA
RunKeyR == last.n < MaxRunOps /\ KeyR

RunNext == RunTick \/ RunKeyA \/ RunKeyR

SpecRun == RunInit /\ [][RunNext]_vars

---------------------------------------------------------------------------
(* Properties of the simulation in mid-run (SpecRun)                       *)

\* C11: every vehicle has its lane in {0, 1} exactly when its direction is
\* +1 and in {2, 3} exactly when it is -1, after initial spawns, timed
\* spawns, lane changes of either kind and resets.
C11_LaneGroups ==
    \A j \in 1..Len(vehicles) :
       /\ vehicles[j].lane \in {0, 1} <=> vehicles[j].direction = 1
       /\ vehicles[j].lane \in {2, 3} <=> vehicles[j].direction = -1

\* C11 witness: an update in which a vehicle has changed lane and a vehicle
\* has been spawned.
C11_Witness ==
    /\ last.op = "tick"
    /\ \E j \in 1..Len(last.before.vehicles) :
          last.moved[j].lane # last.before.vehicles[j].lane
    /\ Len(vehicles) > Len(last.kept)

\* The entry point of a direction, and the distance of a vehicle from it
EntryX(direction) == IF direction = 1 THEN -100 ELSE SCREEN_WIDTH + 100
EntryDistance(v) ==
    Max(0, Max(Lo(v) - EntryX(v.direction), EntryX(v.direction) - Hi(v)))

\* Some vehicle of the lane and direction is within 200 units of the entry point
NearEntry(vs, lane, direction) ==
    \E j \in 1..Len(vs) :
       /\ vs[j].lane = lane
       /\ vs[j].direction = direction
       /\ EntryDistance(vs[j]) <= 200

\* The spawn timer expires in the update the history describes
SpawnDue == last.before.spawn_timer + last.d >= SPAWN_INTERVAL

\* C13: an update adds at most one vehicle, at the entry point of its lane,
\* and only if no vehicle of that lane and direction is within 200 units of
\* the entry point; otherwise the vehicles are those left after the removal.
C13_SpawnSafe ==
    last.op = "tick" =>
       /\ \/ vehicles = last.kept
          \/ /\ Len(vehicles) = Len(last.kept) + 1
             /\ SubSeq(vehicles, 1, Len(last.kept)) = last.kept
             /\ LET new == vehicles[Len(vehicles)]
                IN /\ new.x = EntryX(new.direction)
                   /\ ~NearEntry(last.kept, new.lane, new.direction)
       /\ (SpawnDue /\ NearEntry(last.kept, last.sv.lane, last.sv.direction))
             => vehicles = last.kept

\* C13 witness: a vehicle has been spawned into a lane that holds a vehicle
\* of its direction farther along the road.
C13_Witness ==
    /\ last.op = "tick"
    /\ Len(vehicles) = Len(last.kept) + 1
    /\ \E j \in 1..Len(last.kept) :
          /\ last.kept[j].lane = vehicles[Len(vehicles)].lane
          /\ last.kept[j].direction = vehicles[Len(vehicles)].direction

\* The spawn position of the draws is not clear among vs
SpawnBlocked(vs, r) ==
    \E j \in 1..Len(vs) :
       /\ vs[j].lane = r.lane
       /\ vs[j].direction = r.direction
       /\ \/ r.direction = 1 /\ vs[j].x < 200
          \/ r.direction = -1 /\ vs[j].x > SCREEN_WIDTH - 200

\* C14: when the spawn timer expires and the spawn position is not clear, no
\* vehicle is added (no other lane or direction is tried) and the timer is
\* back at 0 as after a spawn; while the timer is below SPAWN_INTERVAL no
\* vehicle is added and the timer keeps counting.
C14_BlockedSpawn ==
    last.op = "tick" =>
       /\ (SpawnDue /\ SpawnBlocked(last.kept, last.sv))
             => vehicles = last.kept /\ spawn_timer = 0
       /\ (SpawnDue /\ ~SpawnBlocked(last.kept, last.sv))
             => Len(vehicles) = Len(last.kept) + 1 /\ spawn_timer = 0
       /\ ~SpawnDue
             => /\ vehicles = last.kept
                /\ spawn_timer = last.before.spawn_timer + last.d
                /\ spawn_timer < SPAWN_INTERVAL

\* C14 witness: the timer has expired by more than its interval, the spawn
\* position was not clear, and the other lane of the direction was free.
C14_Witness ==
    /\ last.op = "tick"
    /\ last.before.spawn_timer + last.d > SPAWN_INTERVAL
    /\ SpawnBlocked(last.kept, last.sv)
    /\ ~SpawnBlocked(last.kept, [last.sv EXCEPT !.lane = IF last.sv.direction = 1
                                                          THEN 1 - last.sv.lane
                                                          ELSE 5 - last.sv.lane])
    /\ vehicles = last.kept

\* A vehicle is beyond the road bound of its direction
OutOfBounds(v) ==
    \/ v.direction = 1 /\ v.x > SCREEN_WIDTH + 100
    \/ v.direction = -1 /\ v.x < -100

\* The vehicles of vs that have passed the intersection
Passed(vs) == { j \in 1..Len(vs) : vs[j].passed_intersection }

\* C17: an update drops the vehicles beyond their road bound and no other,
\* and adds to total_cars_passed one for each vehicle dropped with
\* passed_intersection set; no other step but a reset changes the counter.
C17_CountedOnce ==
    [][ /\ last'.op = "tick" =>
             /\ \A j \in 1..Len(last'.removed) : OutOfBounds(last'.removed[j])
             /\ \A j \in 1..Len(last'.kept) : ~OutOfBounds(last'.kept[j])
             /\ Len(last'.removed) + Len(last'.kept) = Len(last'.moved)
             /\ total_cars_passed' = total_cars_passed + Cardinality(Passed(last'.removed))
        /\ last'.op \notin {"tick", "key_r"} => total_cars_passed' = total_cars_passed
      ]_vars

\* C17 witness: two vehicles have been dropped and counted in one update,
\* and a vehicle that has passed the intersection stays on the road.
C17_Witness ==
    /\ last.op = "tick"
    /\ Len(last.removed) = 2
    /\ total_cars_passed = last.before.total_cars_passed + 2
    /\ \E j \in 1..Len(last.kept) : last.kept[j].passed_intersection

\* The lane-change attempts of the vehicles lc, in list order, from the j-th on
RECURSIVE attempts_from(_, _, _)
attempts_from(vs, j, lc) ==
    IF j > Len(vs) THEN vs
    ELSE attempts_from(IF j \in lc /\ vs[j].vehicle_type # "ambulance"
                       THEN attempt_lane_change(vs, j) ELSE vs,
                       j + 1, lc)

\* C19: the vehicles after the loop of an update are what advancing every
\* vehicle first (after the light) and making the lane-change attempts
\* afterwards gives: no attempt sees a vehicle not yet advanced.
C19_AdvanceThenAttempt ==
    last.op = "tick" =>
       last.moved = attempts_from(update_vehicles(last.before.vehicles, last.d,
                                                  traffic_light, {}),
                                  1, last.lc)

\* C29: an update of the simulation leaves the lane and the y of every
\* ambulance as they were: the lane-change attempts of the vehicle loop skip
\* ambulances, and an ambulance's clear_path makes no other ambulance change
\* lane.
C29_AmbulanceKeepsLane ==
    last.op = "tick" =>
       \A j \in 1..Len(last.before.vehicles) :
          last.before.vehicles[j].vehicle_type = "ambulance"
            => /\ last.moved[j].vehicle_type = "ambulance"
               /\ last.moved[j].lane = last.before.vehicles[j].lane
               /\ last.moved[j].y = last.before.vehicles[j].y

\* C29 witness: an update in which the draw of an ambulance succeeded, with
\* another ambulance less than 150 units ahead of it in its lane, a leader
\* close ahead of either and the other lane free.
C29_Witness ==
    /\ last.op = "tick"
    /\ \E j, k \in 1..Len(last.before.vehicles) :
          LET bv == last.before.vehicles
              free == [bv EXCEPT ![j].vehicle_type = "car", ![k].vehicle_type = "car",
                                 ![j].lane_change_cooldown = 0,
                                 ![k].lane_change_cooldown = 0]
          IN /\ j # k
             /\ j \in last.lc
             /\ bv[j].vehicle_type = "ambulance"
             /\ bv[k].vehicle_type = "ambulance"
             /\ bv[k].lane = bv[j].lane
             /\ distance_to_vehicle(bv[j], bv[k]) > 0
             /\ distance_to_vehicle(bv[j], bv[k]) < 150
             /\ attempt_lane_change(free, j)[j].lane # bv[j].lane
             /\ attempt_lane_change(free, k)[k].lane # bv[k].lane
             /\ last.moved[j].lane = bv[j].lane
             /\ last.moved[k].lane = bv[k].lane

---------------------------------------------------------------------------
(* Properties of the whole simulation (Spec)                               *)

\* C15: right after the reset command the vehicle list and the pedestrian
\* list are empty, the light is in its initial state and the counters and
\* spawn timers are 0.
C15_ResetClears ==
    last.op = "key_r" =>
       /\ vehicles = << >>
       /\ pedestrians = << >>
       /\ traffic_light = NewTrafficLight
       /\ total_cars_passed = 0
       /\ simulation_time = 0
       /\ spawn_timer = 0
       /\ pedestrian_spawn_timer = 0

\* C18: the key command a changes the light's adaptive_mode and nothing
\* else: the light's state and timer, the vehicles, the pedestrians and the
\* counters are as before.
C18_ToggleFrame ==
    [][ last'.op = "key_a" =>
           /\ traffic_light'.adaptive_mode = ~traffic_light.adaptive_mode
           /\ traffic_light'.state = traffic_light.state
           /\ traffic_light'.timer = traffic_light.timer
           /\ UNCHANGED << vehicles, pedestrians, spawn_timer, pedestrian_spawn_timer,
                           total_cars_passed, simulation_time, paused, time_scale >>
      ]_vars

\* C18 witness: adaptive mode has just been switched on in the middle of a
\* phase, with vehicles on the road.
C18_Witness ==
    /\ last.op = "key_a"
    /\ traffic_light.adaptive_mode
    /\ traffic_light.timer > 0
    /\ simulation_time > 0
    /\ Len(vehicles) > 0

====
